---- MODULE Spec2Model ----
(***************************************************************************)
(* A model of pidcat (abdalmoniem/pidcat), src/pidcat.py: the tag color    *)
(* allocator (getTagColor over KNOWN_TAGS and LAST_USED), the package      *)
(* filter predicate (isMatchingPackage), startup (main) and the per-line   *)
(* handler of the stream loop (writeLogLine); then, each on its own, the   *)
(* wrapping loop (getWrappedIndent), the color stripping (NO_COLOR.sub),   *)
(* the ends of the stream loop (upstream, console, output file, stderr),   *)
(* and the writers of src/controller.                                      *)
(*                                                                         *)
(* A string is modelled as a sequence of symbols.  A symbol is one         *)
(* character; in the names of tags, pids and packages a run of characters  *)
(* that holds no ':' is written as one symbol ("ActivityManager",          *)
(* "com.app"), and ':' is always a symbol of its own, so that              *)
(* str.find(":") and slicing act on the sequence as they act on the text.  *)
(***************************************************************************)
EXTENDS Integers, Sequences, FiniteSets, TLC

VARIABLES
    KNOWN_TAGS,   \* pidcat.py:49  dict name -> color (the allocation table)
    LAST_USED,    \* pidcat.py:40  list of colors (the recency list)
    call,         \* the latest getTagColor call: its argument, result, and whether the name was new
    mon,          \* the eviction scenario: the followed name T and what happened since
    mToken,       \* isMatchingPackage called on its own: the token,
    mNamed,       \*   the namedProcesses list,
    mCatchall,    \*   the catchallPackage list,
    mResult,      \*   and the value returned: <<>> before the call, <<b>> after it
    pc,           \* main: "start", then the stream loop: "loop" (its test), "read", "write"; "done"
    argv,         \* the command line as parsed (pidcat.py:846-849)
    device,       \* what adb reports at startup: the ps list and the visible packages
    args,         \* Args as main leaves it (all, ignoreTag rewritten)
    state,        \* State (pidcat.py:195-204)
    line,         \* the line of the current loop iteration
    out,          \* what writeLogLine wrote in this iteration, and where it returned
    bannerPending, \* history: a banner was written in an earlier iteration, no ordinary line since
    wrap,         \* getWrappedIndent called on its own: its arguments, locals and position
    strip,        \* NO_COLOR.sub called on its own: the text, and the text stripped once and twice
    run,          \* the stream loop seen from its ends: upstream, console, output file, stderr
    writer        \* a ConsoleWriter and a FileWriter: their streams, and the latest call

colorVars == <<KNOWN_TAGS, LAST_USED, call, mon>>

matchVars == <<mToken, mNamed, mCatchall, mResult>>

streamVars == <<pc, argv, device, args, state, line, out, bannerPending>>

ioVars == <<wrap, strip, run, writer>>

vars == <<KNOWN_TAGS, LAST_USED, call, mon, mToken, mNamed, mCatchall, mResult,
          pc, argv, device, args, state, line, out, bannerPending,
          wrap, strip, run, writer>>

NoWrap == [pc |-> "idle", arg |-> <<>>, message |-> <<>>, width |-> 0, headerSize |-> 0,
           messageBuffer |-> <<>>, current |-> 0, odd |-> FALSE]

NoStrip == [pc |-> "idle", text |-> <<>>, once |-> <<>>, twice |-> <<>>]

NoRun == [pc |-> "idle", upstream |-> "alive", showColors |-> FALSE, outputFile |-> "none",
          lines |-> 0, pending |-> <<>>, console |-> <<>>, file |-> <<>>, stderr |-> <<>>,
          cause |-> "none", mock |-> FALSE, written |-> 0, pipe |-> <<>>, read |-> <<>>]

NoWriter == [pc |-> "idle",
             console |-> [stream |-> "attached", written |-> 0, buffered |-> 0, delivered |-> 0],
             file |-> [stream |-> "open", written |-> 0, buffered |-> 0, delivered |-> 0],
             last |-> [target |-> "none", op |-> "none", raised |-> "none"]]

WrapIdle == wrap = NoWrap

StripIdle == strip = NoStrip

RunIdle == run = NoRun

WriterIdle == writer = NoWriter

IoIdle ==
    /\ WrapIdle
    /\ StripIdle
    /\ RunIdle
    /\ WriterIdle

-----------------------------------------------------------------------------
(* terminalColors.py:4   BLACK, RED, ..., WHITE = range(8) *)
BLACK == 0
RED == 1
GREEN == 2
YELLOW == 3
BLUE == 4
MAGENTA == 5
CYAN == 6
WHITE == 7

Palette == BLACK..WHITE

Range(s) == { s[i] : i \in 1..Len(s) }

(* pidcat.py:40-47 *)
LastUsedInit == <<RED, BLUE, CYAN, GREEN, YELLOW, MAGENTA>>

(* pidcat.py:49-58 *)
KnownTagsInit ==
    (<<"jdwp">> :> WHITE) @@ (<<"DEBUG">> :> YELLOW) @@ (<<"Process">> :> WHITE)
    @@ (<<"dalvikvm">> :> WHITE) @@ (<<"StrictMode">> :> WHITE)
    @@ (<<"AndroidRuntime">> :> CYAN) @@ (<<"ActivityThread">> :> WHITE)
    @@ (<<"ActivityManager">> :> WHITE)

WellKnownTags == DOMAIN KnownTagsInit

(* list.remove(x): drops the first occurrence of x *)
FirstIndex(s, x) == CHOOSE i \in 1..Len(s) : s[i] = x /\ \A j \in 1..(i-1) : s[j] # x

ListRemove(s, x) ==
    LET i == FirstIndex(s, x)
    IN  [k \in 1..(Len(s)-1) |-> IF k < i THEN s[k] ELSE s[k+1]]

(* getTagColor with the color moved to the back only when the name is new *)
getTagColor_MoveOnlyNew(tag, kt, lu) ==
    LET isNew == tag \notin DOMAIN kt
        kt1 == IF isNew THEN kt @@ (tag :> lu[1]) ELSE kt
        color == kt1[tag]
        lu1 == IF isNew /\ color \in Range(lu)
               THEN Append(ListRemove(lu, color), color) ELSE lu
    IN  [kt |-> kt1, lu |-> lu1, color |-> color]

(* getTagColor with the remove but not the append *)
getTagColor_NoAppend(tag, kt, lu) ==
    LET kt1 == IF tag \notin DOMAIN kt THEN kt @@ (tag :> lu[1]) ELSE kt
        color == kt1[tag]
        lu1 == IF color \in Range(lu) THEN ListRemove(lu, color) ELSE lu
    IN  [kt |-> kt1, lu |-> lu1, color |-> color]

(* getTagColor without the test for an existing entry: every call assigns *)
(* the front color                                                        *)
getTagColor_Overwrite(tag, kt, lu) ==
    LET kt1 == [n \in DOMAIN kt \cup {tag} |-> IF n = tag THEN lu[1] ELSE kt[n]]
        color == kt1[tag]
        lu1 == IF color \in Range(lu) THEN Append(ListRemove(lu, color), color) ELSE lu
    IN  [kt |-> kt1, lu |-> lu1, color |-> color]

(* getTagColor as a true LRU: a name whose color is handed to a new name *)
(* loses its entry                                                       *)
getTagColor_Evicting(tag, kt, lu) ==
    LET isNew == tag \notin DOMAIN kt
        kept == { n \in DOMAIN kt : n \in WellKnownTags \/ kt[n] # lu[1] }
        kt1 == IF isNew
               THEN [n \in kept \cup {tag} |-> IF n = tag THEN lu[1] ELSE kt[n]]
               ELSE kt
        color == kt1[tag]
        lu1 == IF color \in Range(lu) THEN Append(ListRemove(lu, color), color) ELSE lu
    IN  [kt |-> kt1, lu |-> lu1, color |-> color]

(* getTagColor where a name whose color is in the rotation takes the front *)
(* color again on every lookup                                             *)
getTagColor_Refresh(tag, kt, lu) ==
    LET again == tag \in DOMAIN kt /\ kt[tag] \in Range(lu)
        kt1 == IF tag \notin DOMAIN kt \/ again
               THEN [n \in DOMAIN kt \cup {tag} |-> IF n = tag THEN lu[1] ELSE kt[n]]
               ELSE kt
        color == kt1[tag]
        lu1 == IF color \in Range(lu) THEN Append(ListRemove(lu, color), color) ELSE lu
    IN  [kt |-> kt1, lu |-> lu1, color |-> color]

(* pidcat.py:476-488 getTagColor: the table and the list after the call, *)
(* and the color returned                                                *)
getTagColor(tag, kt, lu) ==
    LET kt1 == IF tag \notin DOMAIN kt THEN kt @@ (tag :> lu[1]) ELSE kt
        color == kt1[tag]
        lu1 == IF color \in Range(lu) THEN Append(ListRemove(lu, color), color) ELSE lu
    IN  [kt |-> kt1, lu |-> lu1, color |-> color]

-----------------------------------------------------------------------------
(* Strings as sequences of symbols *)

NoName == <<>>

Colon == ":"

(* str.find(sym): the 0-based index of the first occurrence, -1 when none *)
Find(s, sym) ==
    IF \E i \in 1..Len(s) : s[i] = sym
    THEN (CHOOSE i \in 1..Len(s) : s[i] = sym /\ \A j \in 1..(i-1) : s[j] # sym) - 1
    ELSE -1

(* s[:n] for 0 <= n <= len(s) *)
Slice(s, n) == SubSeq(s, 1, n)

(* isMatchingPackage with the qualifier separator kept in the prefix *)
isMatchingPackage_KeepColon(token, namedProcesses, catchallPackage) ==
    IF catchallPackage = {} /\ namedProcesses = {}
    THEN TRUE
    ELSE IF token \in namedProcesses
    THEN TRUE
    ELSE LET index == Find(token, Colon)
         IN  IF index = -1
             THEN token \in catchallPackage
             ELSE Slice(token, index + 1) \in catchallPackage

(* pidcat.py:806-817 isMatchingPackage; the two lists are read by        *)
(* membership only and are modelled as sets                              *)
isMatchingPackage(token, namedProcesses, catchallPackage) ==
    IF catchallPackage = {} /\ namedProcesses = {}
    THEN TRUE
    ELSE IF token \in namedProcesses
    THEN TRUE
    ELSE LET index == Find(token, Colon)
         IN  IF index = -1
             THEN token \in catchallPackage
             ELSE Slice(token, index) \in catchallPackage

-----------------------------------------------------------------------------
(* The stream loop: data *)

(* Python's None for an optional string (a pid or a tag is never empty) *)
None == NoName

Pid10 == <<"10">>

Pid20 == <<"20">>

Pids == {Pid10, Pid20}

ComApp == <<"com.app">>

ComAppRemote == <<"com.app", Colon, "remote">>

ComOther == <<"com.other">>

ProcessNames == {ComApp, ComAppRemote, ComOther}

TagTest == <<"Test">>

TagAM == <<"ActivityManager">>

TagDEBUG == <<"DEBUG">>

TagDalvik == <<"dalvikvm">>

(* pidcat.py:37-38 LOG_LEVELS, LOG_LEVELS_MAP *)
LOG_LEVELS == <<"V", "D", "I", "W", "E", "F">>

LOG_LEVELS_MAP(level) == (CHOOSE i \in 1..Len(LOG_LEVELS) : LOG_LEVELS[i] = level) - 1

(* the letters [A-Z] of LOG_LINE that occur in the lines of the model *)
CapitalLetters == Range(LOG_LEVELS) \cup {"X"}

(* pidcat.py:60-134 SYSTEM_TAGS: two of the literal names of the list *)
SYSTEM_TAGS == {<<"ActivityThread">>, <<"libc">>}

(* a tag filter term: a literal text (re = FALSE), or the anchored pattern *)
(* ^text$ that main builds from SYSTEM_TAGS (re = TRUE)                    *)
Term(text, re) == [text |-> text, re |-> re]

(* pidcat.py:236-238 the default column widths *)
DefaultPidWidth == 6

DefaultPackageWidth == 20

DefaultTagWidth == 20

(* pidcat.py:216-240 Args, with the defaults of the argument parser *)
ArgsDefault == [
    package |-> {}, all |-> FALSE, currentApp |-> FALSE, ignoreSystemTags |-> FALSE,
    tag |-> {}, ignoreTag |-> {}, logLevel |-> "V",
    showPID |-> FALSE, showPackage |-> FALSE, alwaysShowTags |-> FALSE,
    tagWidth |-> DefaultTagWidth ]

NoState == [pidsMap |-> <<>>, lastTag |-> None, appPID |-> None, logLevel |-> 0,
            namedProcesses |-> {}, catchallPackage |-> {}]

(* a message body, by the pattern it matches, with the pid and the process *)
(* name the pattern captures                                               *)
Msg(form, pid, pkg) == [form |-> form, pid |-> pid, pkg |-> pkg]

MsgText == Msg("text", None, None)

(* a raw line "<level>/<tag>( <owner>): <message>" *)
Log(level, tag, owner, msg) ==
    [shape |-> "log", native |-> FALSE, level |-> level, tag |-> tag, owner |-> owner, msg |-> msg]

(* a raw line of any other shape, with or without "nativeGetEnabledTags" *)
Other(native) ==
    [shape |-> "other", native |-> native, level |-> "", tag |-> None, owner |-> None, msg |-> MsgText]

NoLine == Other(FALSE)

Unit(kind, pid, name, tag, shown) ==
    [kind |-> kind, pid |-> pid, name |-> name, tag |-> tag, tagShown |-> shown,
     tagCols |-> 0]

NoOut == [units |-> <<>>, ret |-> "none"]

StreamIdle ==
    /\ pc = "idle"
    /\ argv = ArgsDefault
    /\ args = ArgsDefault
    /\ device = [ps |-> <<>>, visible |-> {}]
    /\ state = NoState
    /\ line = NoLine
    /\ out = NoOut
    /\ bannerPending = FALSE

-----------------------------------------------------------------------------
(* The stream loop: the functions writeLogLine calls *)

MapPut(m, k, v) == [x \in DOMAIN m \cup {k} |-> IF x = k THEN v ELSE m[x]]

(* the delete that leaves the entry in place *)
MapDel_Keep(m, k) == m

MapDel(m, k) == [x \in DOMAIN m \ {k} |-> m[x]]

(* pidcat.py:530-559 getProcesses: ps is the list of (pid, process) that *)
(* PID_LINE captures from the output of "adb shell ps", in order         *)
getProcesses(ps, catchallPackage, all) ==
    LET kept == { i \in 1..Len(ps) : all \/ ps[i].process \in catchallPackage }
        last(pid) == CHOOSE i \in kept : ps[i].pid = pid /\ \A j \in kept : ps[j].pid = pid => j <= i
    IN  [pid \in { ps[i].pid : i \in kept } |-> ps[last(pid)].process]

Target == <<"service X">>

Uid == <<"10001">>

Gids == <<"{3003}">>

(* pidcat.py:139-146: the groups a pattern captures from a line, <<>> when *)
(* it does not match.  PID_START* are matched against the whole line,      *)
(* PID_KILL, PID_LEAVE and PID_DEATH against the message.                  *)
Groups(regex, ln) ==
    LET m == ln.msg
    IN  CASE regex = "PID_START" /\ m.form \in {"start", "killstart"} -> <<m.pid, m.pkg, Target>>
          [] regex = "PID_START_UGID" /\ m.form = "start_ugid" -> <<m.pkg, Target, m.pid, Uid, Gids>>
          [] regex = "PID_START_DALVIK" /\ m.form = "start_dalvik"
                /\ ln.level = "E" /\ ln.tag = TagDalvik /\ ln.owner = m.pid -> <<m.pid, m.pkg, Uid>>
          [] regex = "PID_KILL" /\ m.form \in {"kill", "killstart"} -> <<m.pid, m.pkg, <<"reason">> >>
          [] regex = "PID_LEAVE" /\ m.form = "leave" -> <<m.pkg, m.pid>>
          [] regex = "PID_DEATH" /\ m.form = "death" -> <<m.pkg, m.pid>>
          [] OTHER -> <<>>

NoStart == <<>>

(* pidcat.py:591-619 getStartedProcesses: (pid, uid, gids, package, target) *)
getStartedProcesses(ln) ==
    LET a == Groups("PID_START", ln)
        b == Groups("PID_START_UGID", ln)
        c == Groups("PID_START_DALVIK", ln)
    IN  IF a # <<>> THEN <<a[1], <<>>, <<>>, a[2], a[3]>>
        ELSE IF b # <<>> THEN <<b[3], b[4], b[5], b[1], b[2]>>
        ELSE IF c # <<>> THEN <<c[1], c[3], <<>>, c[2], <<>> >>
        ELSE NoStart

NoDead == <<>>

DeadRegexes == <<"PID_KILL", "PID_LEAVE", "PID_DEATH">>

(* pidcat.py:570-586 the (pid, package) a termination pattern captures: *)
(* PID_KILL has the pid first, PID_LEAVE and PID_DEATH the package     *)
DeadGroups(regex, ln) ==
    LET g == Groups(regex, ln)
    IN  IF regex = "PID_KILL" THEN <<g[1], g[2]>> ELSE <<g[2], g[1]>>

(* pidcat.py:569-586 the patterns are tried in order: the first that hits *)
FirstDead(hits, ln) ==
    IF hits = {} THEN NoDead
    ELSE DeadGroups(DeadRegexes[CHOOSE i \in hits : \A j \in hits : i <= j], ln)

(* getDeadProcesses without the test of the tag *)
getDeadProcesses_AnyTag(tag, ln, pidsSet, namedProcesses, catchallPackage) ==
    FirstDead({ i \in 1..Len(DeadRegexes) :
                  /\ Groups(DeadRegexes[i], ln) # <<>>
                  /\ isMatchingPackage(DeadGroups(DeadRegexes[i], ln)[2],
                                       namedProcesses, catchallPackage)
                  /\ DeadGroups(DeadRegexes[i], ln)[1] \in pidsSet }, ln)

(* pidcat.py:562-588 getDeadProcesses: (pid, packageLine) of the first *)
(* pattern that matches a tracked pid of a matching package            *)
getDeadProcesses(tag, ln, pidsSet, namedProcesses, catchallPackage) ==
    IF tag # TagAM THEN NoDead
    ELSE FirstDead({ i \in 1..Len(DeadRegexes) :
                       /\ Groups(DeadRegexes[i], ln) # <<>>
                       /\ isMatchingPackage(DeadGroups(DeadRegexes[i], ln)[2],
                                            namedProcesses, catchallPackage)
                       /\ DeadGroups(DeadRegexes[i], ln)[1] \in pidsSet }, ln)

(* text in s, for sequences of symbols *)
Contains(s, text) ==
    \E i \in 1..(Len(s) - Len(text) + 1) : SubSeq(s, i, i + Len(text) - 1) = text

(* pidcat.py:820-832 isMatchingTag.  A term ^text$ matches the tag text; *)
(* its own text, with the anchors, is in no tag.  A literal term matches *)
(* a tag that contains it.                                               *)
isMatchingTag(tag, tags) ==
    \E t \in tags : IF t.re THEN tag = t.text ELSE Contains(tag, t.text)

(* pidcat.py:650 LOG_LINE: ^([A-Z])/(.+?)\( *(\d+)\): (.*?)$ *)
LogLineMatches(ln) == ln.shape = "log" /\ ln.level \in CapitalLetters

(* the ownership test without the lookup in pidsMap *)
OwnerPasses_AnyOwner(all, owner, pidsMap) == all \/ owner # None

(* pidcat.py:699 the ownership test *)
OwnerPasses(all, owner, pidsMap) == all \/ owner \in DOMAIN pidsMap

(* the severity test with <= for < *)
LevelPasses_Strict(level, logLevel) ==
    ~(level \in Range(LOG_LEVELS) /\ LOG_LEVELS_MAP(level) <= logLevel)

(* pidcat.py:702 the severity test *)
LevelPasses(level, logLevel) ==
    ~(level \in Range(LOG_LEVELS) /\ LOG_LEVELS_MAP(level) < logLevel)

Unknown(owner) == <<"UNKNOWN(">> \o owner \o <<")">>

(* what writeLogLine leaves behind: the pidsMap (changed in place), the *)
(* lastTag and appPID the state holds when it returns, the units written *)
(* (start banner, end banner, ordinary line), where it returned, and the *)
(* color table and list                                                  *)
Return(pidsMap, lastTag, appPID, units, ret, kt, lu) ==
    [pidsMap |-> pidsMap, lastTag |-> lastTag, appPID |-> appPID,
     units |-> units, ret |-> ret, kt |-> kt, lu |-> lu]

(* pidcat.py:784-803 the one writeOutput call of an ordinary line, then *)
(* state.lastTag = lastTag and state.appPID = appPid                    *)
WriteLine(pidsMap, lastTag, appPid, units, unit, c) ==
    Return(pidsMap, IF unit.tagShown THEN unit.tag ELSE lastTag, appPid,
           Append(units, unit), "done", c.kt, c.lu)

(* len(tag): the number of characters of a tag of the model *)
CharLen(tag) ==
    CASE tag = TagTest -> 4
      [] tag = TagDEBUG -> 5
      [] tag = TagDalvik -> 8
      [] tag = TagAM -> 15
      [] OTHER -> 14

(* len(tag[:k]), also for a negative k *)
SliceLen(n, k) ==
    IF k >= 0 THEN (IF k < n THEN k ELSE n) ELSE (IF n + k > 0 THEN n + k ELSE 0)

(* pidcat.py:754-760 the characters the tag column takes before its      *)
(* separator: a tag longer than tagWidth becomes tag[: tagWidth - 3] and *)
(* "...", then ljust or rjust pads it to tagWidth; a tag not shown is    *)
(* " " * tagWidth                                                        *)
TagCellWidth(tag, tagWidth, shown) ==
    IF ~shown THEN tagWidth
    ELSE IF CharLen(tag) <= tagWidth THEN tagWidth
    ELSE IF SliceLen(CharLen(tag), tagWidth - 3) + 3 > tagWidth
    THEN SliceLen(CharLen(tag), tagWidth - 3) + 3
    ELSE tagWidth

(* pidcat.py:749-760 the tag column: shown when the tag differs from *)
(* lastTag, or always with alwaysShowTags; getTagColor(tag)          *)
TagColumn(ln, ar, pidsMap, lastTag, appPid, units, pid, name, c, shown) ==
    WriteLine(pidsMap, lastTag, appPid, units,
              [Unit("line", pid, name, ln.tag, shown)
                 EXCEPT !.tagCols = TagCellWidth(ln.tag, ar.tagWidth, shown)],
              IF shown THEN getTagColor(ln.tag, c.kt, c.lu) ELSE c)

(* pidcat.py:735-747 the package column: getTagColor(packageName) *)
PackageColumn(ln, ar, pidsMap, lastTag, appPid, units, owner, pid, c, packageName) ==
    TagColumn(ln, ar, pidsMap, lastTag, appPid, units, pid,
              IF ar.showPackage /\ owner # None THEN packageName ELSE None,
              IF ar.showPackage /\ owner # None THEN getTagColor(packageName, c.kt, c.lu) ELSE c,
              ar.tagWidth > 0 /\ (ln.tag # lastTag \/ ar.alwaysShowTags))

(* pidcat.py:722-733 the pid column: getTagColor(owner) *)
PidColumn(ln, ar, pidsMap, lastTag, appPid, units, owner, kt, lu) ==
    PackageColumn(ln, ar, pidsMap, lastTag, appPid, units, owner,
                  IF ar.showPID /\ owner # None THEN owner ELSE None,
                  IF ar.showPID /\ owner # None THEN getTagColor(owner, kt, lu)
                  ELSE [kt |-> kt, lu |-> lu, color |-> BLACK],
                  IF owner \in DOMAIN pidsMap THEN pidsMap[owner] ELSE Unknown(owner))

(* pidcat.py:711-716 a backtrace line of tag DEBUG is owned by appPid *)
Render(ln, ar, pidsMap, lastTag, appPid, units, kt, lu) ==
    PidColumn(ln, ar, pidsMap, lastTag, appPid, units,
              IF ln.tag = TagDEBUG /\ ln.msg.form = "bt" THEN appPid ELSE ln.owner, kt, lu)

(* pidcat.py:698-709 the filters; a return here is before lines 802-803, *)
(* so the state keeps the lastTag and appPID it had                      *)
Filters(ln, st, ar, kt, lu, pidsMap, lastTag, appPid, units) ==
    IF ~OwnerPasses(ar.all, ln.owner, pidsMap)
    THEN Return(pidsMap, st.lastTag, st.appPID, units, "owner", kt, lu)
    ELSE IF ~LevelPasses(ln.level, st.logLevel)
    THEN Return(pidsMap, st.lastTag, st.appPID, units, "level", kt, lu)
    ELSE IF ar.ignoreTag # {} /\ isMatchingTag(ln.tag, ar.ignoreTag)
    THEN Return(pidsMap, st.lastTag, st.appPID, units, "ignoreTag", kt, lu)
    ELSE IF ar.tag # {} /\ ~isMatchingTag(ln.tag, ar.tag)
    THEN Return(pidsMap, st.lastTag, st.appPID, units, "tag", kt, lu)
    ELSE Render(ln, ar, pidsMap, lastTag, appPid, units, kt, lu)

(* pidcat.py:684-696 a termination: the pid leaves pidsMap, the end banner *)
(* is written, lastTag = None                                              *)
Ended(ln, st, ar, kt, lu, pidsMap, lastTag, appPid, units, dead) ==
    Filters(ln, st, ar, kt, lu,
            IF dead # NoDead THEN MapDel(pidsMap, dead[1]) ELSE pidsMap,
            IF dead # NoDead THEN None ELSE lastTag,
            appPid,
            IF dead # NoDead THEN Append(units, Unit("end", dead[1], dead[2], None, FALSE))
            ELSE units)

(* pidcat.py:662-682 a start of a matching package: the pid enters pidsMap, *)
(* appPid = startedPID, the start banner is written, lastTag = None; then  *)
(* line 684 getDeadProcesses on the keys of the updated pidsMap            *)
Started(ln, st, ar, kt, lu, pidsMap, lastTag, appPid, units) ==
    Ended(ln, st, ar, kt, lu, pidsMap, lastTag, appPid, units,
          getDeadProcesses(ln.tag, ln, DOMAIN pidsMap, st.namedProcesses, st.catchallPackage))

(* the start test without the package filter *)
StartMatches_Any(startedProcess, st) == startedProcess # NoStart

(* pidcat.py:662-664 startedProcess is set and its package matches *)
StartMatches(startedProcess, st) ==
    /\ startedProcess # NoStart
    /\ isMatchingPackage(startedProcess[4], st.namedProcesses, st.catchallPackage)

(* pidcat.py:654-682 the line is a log line: getStartedProcesses(line) *)
LogLine(ln, st, ar, kt, lu, startedProcess) ==
    IF StartMatches(startedProcess, st)
    THEN Started(ln, st, ar, kt, lu,
                 MapPut(st.pidsMap, startedProcess[1], startedProcess[4]), None,
                 startedProcess[1],
                 <<Unit("start", startedProcess[1], startedProcess[4], None, FALSE)>>)
    ELSE Started(ln, st, ar, kt, lu, st.pidsMap, st.lastTag, st.appPID, <<>>)

(* pidcat.py:622-803 writeLogLine *)
writeLogLine(ln, st, ar, kt, lu) ==
    IF ln.native
    THEN Return(st.pidsMap, st.lastTag, st.appPID, <<>>, "native", kt, lu)
    ELSE IF ~LogLineMatches(ln)
    THEN Return(st.pidsMap, st.lastTag, st.appPID, <<>>, "nolog", kt, lu)
    ELSE LogLine(ln, st, ar, kt, lu, getStartedProcesses(ln))

-----------------------------------------------------------------------------
(* The allocator on its own: any sequence of getTagColor calls. *)

NumFresh == 4

Digits == <<"1", "2", "3", "4", "5", "6", "7", "8", "9", "10", "11", "12">>

FreshName(i) == <<"tag", Digits[i]>>

NoCall == [arg |-> NoName, ret |-> BLACK, new |-> FALSE]

NoMon == [pc |-> "warm", t |-> NoName, color |-> BLACK, run |-> 0, shared |-> FALSE]

(* Names never resolved before are interchangeable to getTagColor, so the *)
(* calls take them in index order: the first n names, then the next one.  *)
NextFresh(kt, n) ==
    { FreshName(i) : i \in { j \in 1..n :
          /\ FreshName(j) \notin DOMAIN kt
          /\ \A k \in 1..(j-1) : FreshName(k) \in DOMAIN kt } }

(* one call of getTagColor(tag) on the module-level table and list *)
Resolve(tag) ==
    LET r == getTagColor(tag, KNOWN_TAGS, LAST_USED)
    IN  /\ KNOWN_TAGS' = r.kt
        /\ LAST_USED' = r.lu
        /\ call' = [arg |-> tag, ret |-> r.color, new |-> tag \notin DOMAIN KNOWN_TAGS]

GetTagColor(tag) ==
    /\ Resolve(tag)
    /\ UNCHANGED <<ioVars, mon, matchVars, streamVars>>

ColorTableInit ==
    /\ KNOWN_TAGS = KnownTagsInit
    /\ LAST_USED = LastUsedInit
    /\ call = NoCall
    /\ mon = NoMon

MatchIdle ==
    /\ mToken = NoName
    /\ mNamed = {}
    /\ mCatchall = {}
    /\ mResult = <<>>

ColorInit ==
    /\ ColorTableInit
    /\ MatchIdle
    /\ StreamIdle
    /\ IoIdle

ColorNext ==
    \E tag \in DOMAIN KNOWN_TAGS \cup NextFresh(KNOWN_TAGS, NumFresh) : GetTagColor(tag)

SpecColor == ColorInit /\ [][ColorNext]_vars

-----------------------------------------------------------------------------
(* The eviction scenario: after some calls (Warm), a name T is resolved   *)
(* (PickT), then six names never seen before, one after the other         *)
(* (NewName), then T again (Again).  mon keeps T, the color T was given,  *)
(* the number of new names resolved since, and whether one of them was    *)
(* given T's color.                                                       *)

WarmFresh == 2

RunLength == Len(LastUsedInit)

Warm(tag) ==
    /\ mon.pc = "warm"
    /\ Resolve(tag)
    /\ UNCHANGED <<ioVars, mon, matchVars, streamVars>>

PickT(tag) ==
    /\ mon.pc = "warm"
    /\ Resolve(tag)
    /\ mon' = [pc |-> "run", t |-> tag, color |-> call'.ret, run |-> 0, shared |-> FALSE]
    /\ UNCHANGED <<ioVars, matchVars, streamVars>>

NewName ==
    /\ mon.pc = "run"
    /\ mon.run < RunLength
    /\ \E tag \in NextFresh(KNOWN_TAGS, WarmFresh + 1 + RunLength) :
          /\ Resolve(tag)
          /\ mon' = [mon EXCEPT !.run = @ + 1,
                                !.shared = @ \/ (call'.ret = mon.color)]
    /\ UNCHANGED <<ioVars, matchVars, streamVars>>

Again ==
    /\ mon.pc = "run"
    /\ mon.run = RunLength
    /\ Resolve(mon.t)
    /\ mon' = [mon EXCEPT !.pc = "again"]
    /\ UNCHANGED <<ioVars, matchVars, streamVars>>

EvictNext ==
    \/ \E tag \in DOMAIN KNOWN_TAGS \cup NextFresh(KNOWN_TAGS, WarmFresh) : Warm(tag)
    \/ \E tag \in DOMAIN KNOWN_TAGS \cup NextFresh(KNOWN_TAGS, WarmFresh + 1) : PickT(tag)
    \/ NewName
    \/ Again

SpecEvict == ColorInit /\ [][EvictNext]_vars

-----------------------------------------------------------------------------
(* isMatchingPackage on its own: one call on any token and filter lists *)

MaxTokenLen == 2

MaxFilters == 1

MatchSymbols == {"a", Colon}

SeqsUpTo(S, n) == UNION { [1..k -> S] : k \in 0..n }

MatchTokens == SeqsUpTo(MatchSymbols, MaxTokenLen)

MatchLists == { L \in SUBSET MatchTokens : Cardinality(L) <= MaxFilters }

MatchInit ==
    /\ ColorTableInit
    /\ mToken \in MatchTokens
    /\ mNamed \in MatchLists
    /\ mCatchall \in MatchLists
    /\ mResult = <<>>
    /\ StreamIdle
    /\ IoIdle

MatchCall ==
    /\ mResult = <<>>
    /\ mResult' = <<isMatchingPackage(mToken, mNamed, mCatchall)>>
    /\ UNCHANGED <<ioVars, mToken, mNamed, mCatchall, colorVars, streamVars>>

MatchNext == MatchCall

SpecMatch == MatchInit /\ [][MatchNext]_vars

-----------------------------------------------------------------------------
(* The program: main, then the stream loop *)

ComOtherColon == <<"com.other", Colon>>

PackageArgs == { {}, {ComApp}, {ComAppRemote}, {ComOtherColon} }

WithPackage(p) == [ArgsDefault EXCEPT !.package = p]

(* the command lines of the model: each package list; then, with the one *)
(* package com.app, each option in turn; the pid and package columns are *)
(* shown for the one named process com.app:remote; the last command line *)
(* gives --ignore-system-tags together with --ignore-tag Test; a tag      *)
(* width of 2 is shorter than every tag                                   *)
ArgsSet ==
    { WithPackage(p) : p \in PackageArgs }
    \cup { [WithPackage({ComApp}) EXCEPT !.all = TRUE],
           [WithPackage({ComApp}) EXCEPT !.logLevel = "W"],
           [WithPackage({ComApp}) EXCEPT !.tag = {Term(TagTest, FALSE)}],
           [WithPackage({ComApp}) EXCEPT !.ignoreTag = {Term(TagTest, FALSE)}],
           [WithPackage({ComApp}) EXCEPT !.alwaysShowTags = TRUE],
           [WithPackage({ComApp}) EXCEPT !.tagWidth = 0],
           [WithPackage({ComApp}) EXCEPT !.tagWidth = 2],
           [WithPackage({ComAppRemote}) EXCEPT !.showPID = TRUE, !.showPackage = TRUE],
           [WithPackage({ComApp}) EXCEPT !.ignoreSystemTags = TRUE,
                                         !.ignoreTag = {Term(TagTest, FALSE)}] }

NoDevice == [ps |-> <<>>, visible |-> {}]

(* a device with two processes of com.app running, com.app visible *)
Running ==
    [ps |-> << [pid |-> Pid10, process |-> ComApp],
               [pid |-> Pid20, process |-> ComAppRemote] >>,
     visible |-> {ComApp}]

(* with processes running: no package and --current, one package, and a *)
(* package that is not running and --current                             *)
Setups ==
    { <<a, NoDevice>> : a \in ArgsSet }
    \cup { <<[WithPackage({}) EXCEPT !.currentApp = TRUE], Running>>,
           <<WithPackage({ComApp}), Running>>,
           <<[WithPackage({ComOtherColon}) EXCEPT !.currentApp = TRUE], Running>> }

Lines ==
    { Other(FALSE), Other(TRUE) }
    \cup { Log(l, t, o, MsgText) : l \in {"V", "W"}, t \in {TagTest, TagAM}, o \in Pids }
    \cup { Log("X", TagTest, Pid10, MsgText),
           Log("V", <<"ActivityThread">>, Pid10, MsgText),
           Log("F", TagDEBUG, Pid20, Msg("bt", None, None)) }
    \cup { Log("I", TagAM, o, Msg("start", p, k)) : o \in Pids, p \in Pids, k \in ProcessNames }
    \cup { Log("I", TagAM, Pid20, Msg("start_ugid", Pid10, ComApp)),
           Log("E", TagDalvik, Pid10, Msg("start_dalvik", Pid10, ComApp)),
           Log("I", TagAM, Pid20, Msg("killstart", Pid10, ComApp)) }
    \cup { Log("I", TagAM, o, Msg("death", p, k)) :
             o \in Pids, p \in Pids, k \in {ComApp, ComOther} }
    \cup { Log("I", TagAM, Pid20, Msg(f, Pid10, ComApp)) : f \in {"kill", "leave"} }
    \cup { Log("I", TagTest, Pid20, Msg("death", Pid10, ComApp)),
           [Log("V", TagTest, Pid10, MsgText) EXCEPT !.native = TRUE] }

StreamInit ==
    /\ pc = "start"
    /\ \E su \in Setups : argv = su[1] /\ device = su[2]
    /\ args = argv
    /\ state = NoState
    /\ line = NoLine
    /\ out = NoOut
    /\ bannerPending = FALSE

Init ==
    /\ ColorTableInit
    /\ MatchIdle
    /\ StreamInit
    /\ IoIdle

(* "show all" without the coercion for an empty package list *)
CoerceAll_Never(all, packages) == all

(* pidcat.py:857-858  if not packages: args.all = True *)
CoerceAll(all, packages) == all \/ packages = {}

(* pidcat.py:891 a trailing ':' of a named process is dropped *)
StripColon(p) == IF p[Len(p)] = Colon THEN Slice(p, Len(p) - 1) ELSE p

(* pidcat.py:851-908 main up to the stream loop *)
Main ==
    /\ pc = "start"
    /\ LET packages == argv.package
           all == CoerceAll(argv.all, packages)
           ignoreTag == IF argv.ignoreSystemTags
                        THEN { Term(t, TRUE) : t \in SYSTEM_TAGS } ELSE argv.ignoreTag
           running == IF argv.currentApp THEN device.visible ELSE {}
           packages1 == packages \cup running
           catchallPackage == { p \in packages1 : Find(p, Colon) = -1 }
           namedProcesses == { StripColon(p) : p \in { q \in packages1 : Find(q, Colon) # -1 } }
       IN  /\ args' = [argv EXCEPT !.all = all, !.ignoreTag = ignoreTag]
           /\ state' = [pidsMap |-> getProcesses(device.ps, catchallPackage, all),
                        lastTag |-> None, appPID |-> None,
                        logLevel |-> LOG_LEVELS_MAP(argv.logLevel),
                        namedProcesses |-> namedProcesses,
                        catchallPackage |-> catchallPackage]
    /\ pc' = "loop"
    /\ UNCHANGED <<ioVars, argv, device, line, out, bannerPending, colorVars, matchVars>>

HasUnit(o, kind) == \E i \in 1..Len(o.units) : o.units[i].kind = kind

(* pidcat.py:910 the loop test passes: a new iteration starts *)
LoopTest ==
    /\ pc = "loop"
    /\ pc' = "read"
    /\ line' = NoLine
    /\ out' = NoOut
    /\ bannerPending' = IF HasUnit(out, "line") THEN FALSE
                        ELSE bannerPending \/ HasUnit(out, "start") \/ HasUnit(out, "end")
    /\ UNCHANGED <<ioVars, argv, device, args, state, colorVars, matchVars>>

(* pidcat.py:910 the upstream process has exited: the loop ends *)
LoopExit ==
    /\ pc = "loop"
    /\ pc' = "done"
    /\ UNCHANGED <<ioVars, argv, device, args, state, line, out, bannerPending, colorVars, matchVars>>

(* pidcat.py:911-920 readline returns a line *)
ReadLine ==
    /\ pc = "read"
    /\ \E ln \in Lines : line' = ln
    /\ pc' = "write"
    /\ UNCHANGED <<ioVars, argv, device, args, state, out, bannerPending, colorVars, matchVars>>

(* pidcat.py:911-913 readline returns nothing: break *)
ReadEnd ==
    /\ pc = "read"
    /\ pc' = "done"
    /\ UNCHANGED <<ioVars, argv, device, args, state, line, out, bannerPending, colorVars, matchVars>>

(* pidcat.py:923-924 writeLogLine(line, state, args, textWriter) *)
WriteLogLine ==
    /\ pc = "write"
    /\ LET r == writeLogLine(line, state, args, KNOWN_TAGS, LAST_USED)
       IN  /\ state' = [state EXCEPT !.pidsMap = r.pidsMap, !.lastTag = r.lastTag,
                                     !.appPID = r.appPID]
           /\ out' = [units |-> r.units, ret |-> r.ret]
           /\ KNOWN_TAGS' = r.kt
           /\ LAST_USED' = r.lu
    /\ pc' = "loop"
    /\ UNCHANGED <<ioVars, argv, device, args, line, bannerPending, call, mon, matchVars>>

Next ==
    \/ Main
    \/ LoopTest
    \/ LoopExit
    \/ ReadLine
    \/ ReadEnd
    \/ WriteLogLine

Spec == Init /\ [][Next]_vars

-----------------------------------------------------------------------------
(* Properties of the color allocator *)

Without(s, c) == SelectSeq(s, LAMBDA x : x # c)

IsFresh(name) == name # NoName /\ name \notin WellKnownTags

(* C1: a getTagColor(name) call assigns a name without an entry the color  *)
(* at the front of the recency list, returns the name's table color, and   *)
(* leaves that color, when it is in the recency list, as the last element  *)
(* with the order of all other colors unchanged; also on a repeat lookup.  *)
C1_Step ==
    LET n == call'.arg
        c == call'.ret
    IN  n # NoName =>
          /\ n \notin DOMAIN KNOWN_TAGS => KNOWN_TAGS'[n] = LAST_USED[1]
          /\ n \in DOMAIN KNOWN_TAGS => KNOWN_TAGS'[n] = KNOWN_TAGS[n]
          /\ n \in DOMAIN KNOWN_TAGS' /\ c = KNOWN_TAGS'[n]
          /\ c \in Range(LAST_USED') =>
                /\ LAST_USED'[Len(LAST_USED')] = c
                /\ Without(LAST_USED', c) = Without(LAST_USED, c)
          /\ c \notin Range(LAST_USED') => LAST_USED' = LAST_USED

C1_GetTagColorContract == [][C1_Step]_vars

(* a repeat lookup of a name whose color was not at the back any more *)
C1_Witness ==
    /\ IsFresh(call.arg) /\ ~call.new
    /\ LAST_USED[Len(LAST_USED)] = call.ret
    /\ \E m \in DOMAIN KNOWN_TAGS : IsFresh(m) /\ KNOWN_TAGS[m] # call.ret

(* C2: the recency list always holds exactly 6 entries, without           *)
(* duplicates, each a palette index: a permutation of its initial colors. *)
C2_RecencyListPermutation ==
    /\ Len(LAST_USED) = 6
    /\ \A i, j \in 1..Len(LAST_USED) : LAST_USED[i] = LAST_USED[j] => i = j
    /\ \A i \in 1..Len(LAST_USED) : LAST_USED[i] \in Palette
    /\ Range(LAST_USED) = Range(LastUsedInit)

(* pids, packages or tags resolved until the initial last color is in front *)
C2_Witness ==
    /\ LAST_USED[1] = MAGENTA
    /\ IsFresh(call.arg)
    /\ Cardinality({ n \in DOMAIN KNOWN_TAGS : IsFresh(n) }) >= 3

C4_WellKnownKeepSeededColor ==
    /\ \A t \in WellKnownTags :
          /\ t \in DOMAIN KNOWN_TAGS
          /\ KNOWN_TAGS[t] = KnownTagsInit[t]
          /\ KNOWN_TAGS[t] \in {WHITE, YELLOW, CYAN}
    /\ call.arg \in WellKnownTags => call.ret = KnownTagsInit[call.arg]

(* DEBUG resolved to YELLOW after the rotation gave YELLOW to another name *)
C4_Witness ==
    /\ call.arg = <<"DEBUG">> /\ call.ret = YELLOW
    /\ \E m \in DOMAIN KNOWN_TAGS : IsFresh(m) /\ KNOWN_TAGS[m] = YELLOW

(* C4 as stated: the well-known tags resolve to colors of a set of exactly *)
(* two colors.                                                             *)
C4_Original ==
    call.arg \in WellKnownTags =>
        \E R \in SUBSET Palette :
            /\ Cardinality(R) = 2
            /\ \A t \in WellKnownTags : KNOWN_TAGS[t] \in R

-----------------------------------------------------------------------------
(* Properties of the package filter predicate *)

(* the part of a token before its first ':', the whole token without one: *)
(* the prefix that holds no ':' and is followed by ':' or by nothing      *)
BeforeFirstColon(token) ==
    CHOOSE p \in { Slice(token, k) : k \in 0..Len(token) } :
        /\ \A i \in 1..Len(p) : p[i] # Colon
        /\ Len(p) = Len(token) \/ token[Len(p) + 1] = Colon

RefMatch(token, named, catchall) ==
    \/ named = {} /\ catchall = {}
    \/ token \in named
    \/ BeforeFirstColon(token) \in catchall

ExampleApp == <<"com.example.app">>

ExampleRemote == <<"com.example.app", Colon, "remote">>

ExampleOther == <<"com.example.other">>

(* C5: isMatchingPackage(token, namedFilters, catchallFilters) equals the *)
(* reference predicate: true if both lists are empty; true if token is in *)
(* namedFilters; otherwise true iff the part of token before its first    *)
(* ':' is in catchallFilters.  Filter ["com.example.app"] matches         *)
(* "com.example.app:remote" and not "com.example.other".                  *)
C5_IsMatchReference ==
    /\ mResult # <<>> => mResult[1] = RefMatch(mToken, mNamed, mCatchall)
    /\ isMatchingPackage(ExampleRemote, {}, {ExampleApp})
    /\ ~isMatchingPackage(ExampleOther, {}, {ExampleApp})

(* a qualified token matched through its prefix only *)
C5_Witness ==
    /\ mResult = <<TRUE>>
    /\ mToken \notin mNamed /\ mNamed # {}
    /\ Find(mToken, Colon) > 0
    /\ mToken \notin mCatchall


-----------------------------------------------------------------------------
(* Properties of the stream loop.  At pc = "loop" with out.ret # "none",  *)
(* line is the line just processed, out what writeLogLine wrote for it,   *)
(* and state the state it left.                                           *)

Processed == pc = "loop" /\ out.ret # "none"

(* a main log line: LOG_LINE matches it and it is not native-tags noise *)
MainLogLine(ln) == LogLineMatches(ln) /\ ~ln.native

Banner(o, kind, pid) ==
    \E i \in 1..Len(o.units) : o.units[i].kind = kind /\ o.units[i].pid = pid

(* C6: with no package or process filter term and "all" not set, startup *)
(* sets "all", and for the whole run no main log line is returned at the *)
(* ownership filter, whether or not its owner is a key of pidsMap.       *)
C6_NoFilterShowsAll ==
    (pc \notin {"idle", "start"} /\ argv.package = {} /\ ~argv.all) =>
        /\ args.all
        /\ (Processed /\ MainLogLine(line)) =>
              out.ret \in {"level", "ignoreTag", "tag", "done"}

C6_Witness ==
    /\ Processed
    /\ argv.package = {} /\ ~argv.all
    /\ MainLogLine(line)
    /\ line.owner \notin DOMAIN state.pidsMap
    /\ out.ret = "done"
    /\ HasUnit(out, "line")

(* C7: an ordinary line is emitted only if "all" is active or its owner is *)
(* a key of pidsMap after the line's own start and termination have been  *)
(* applied: without "all", a main log line whose owner is not a key then  *)
(* is returned at the ownership filter, so a termination line owned by    *)
(* the removed pid is suppressed, and a start line owned by the started   *)
(* pid (and not terminated by the same line) passes the ownership filter. *)
C7_OwnershipGate ==
    Processed =>
        /\ HasUnit(out, "line") => (args.all \/ line.owner \in DOMAIN state.pidsMap)
        /\ (MainLogLine(line) /\ ~args.all /\ line.owner \notin DOMAIN state.pidsMap) =>
              (out.ret = "owner" /\ ~HasUnit(out, "line"))
        /\ (~args.all /\ Banner(out, "end", line.owner)) =>
              (out.ret = "owner" /\ ~HasUnit(out, "line"))
        /\ (Banner(out, "start", line.owner) /\ ~Banner(out, "end", line.owner)) =>
              out.ret # "owner"

C7_Witness ==
    /\ Processed
    /\ ~args.all
    /\ Banner(out, "end", line.owner)
    /\ out.ret = "owner"

(* the level is one of LOG_LEVELS at or above the severity floor *)
AtOrAboveFloor(level, floor) ==
    \E i \in 1..Len(LOG_LEVELS) : LOG_LEVELS[i] = level /\ i - 1 >= floor

(* the tag passes the allow list and the deny list *)
TagListsPass(tag, ar) ==
    /\ ar.tag = {} \/ isMatchingTag(tag, ar.tag)
    /\ ar.ignoreTag = {} \/ ~isMatchingTag(tag, ar.ignoreTag)

(* C8: without "all", in every writeLogLine step: a main log line whose   *)
(* owner p is untracked and not started by the line is dropped; a pid for *)
(* which the step emits a start banner (and no end banner) is tracked     *)
(* after it; a tracked pid stays tracked unless the step emits an end     *)
(* banner for it; and a main log line owned by a tracked pid, at or above *)
(* the severity floor and passing the tag lists, is emitted unless the    *)
(* line itself terminates its owner.                                      *)
C8_Step ==
    (pc = "write" /\ pc' = "loop" /\ ~args.all) =>
        /\ (line.owner \notin DOMAIN state.pidsMap /\ ~Banner(out', "start", line.owner)) =>
              ~HasUnit(out', "line")
        /\ \A q \in Pids :
              (Banner(out', "start", q) /\ ~Banner(out', "end", q)) =>
                  q \in DOMAIN state'.pidsMap
        /\ \A q \in DOMAIN state.pidsMap :
              ~Banner(out', "end", q) => q \in DOMAIN state'.pidsMap
        /\ ( /\ MainLogLine(line)
             /\ line.owner \in DOMAIN state.pidsMap
             /\ ~Banner(out', "end", line.owner)
             /\ AtOrAboveFloor(line.level, state.logLevel)
             /\ TagListsPass(line.tag, args) ) =>
              HasUnit(out', "line")

C8_StartThenPass == [][C8_Step]_vars

(* a line of a pid that a start banner made tracked (no process was *)
(* running at startup) is emitted, with no banner of its own        *)
C8_Witness ==
    /\ Processed
    /\ ~args.all
    /\ device.ps = <<>>
    /\ line.owner \in DOMAIN state.pidsMap
    /\ line.msg.form = "text"
    /\ Len(out.units) = 1
    /\ HasUnit(out, "line")

(* C9: after a line that carries a start of a matching package (a start   *)
(* banner is emitted for it) has been processed, pidsMap[pid] is the      *)
(* started package and state.appPID is the started pid, also when the     *)
(* line's ordinary output is suppressed by a filter.  (Lines that also    *)
(* terminate the started pid are left out.)                               *)
C9_StartRecorded ==
    Processed =>
        \A i \in 1..Len(out.units) :
            (out.units[i].kind = "start" /\ ~Banner(out, "end", out.units[i].pid)) =>
                /\ out.units[i].pid \in DOMAIN state.pidsMap
                /\ state.pidsMap[out.units[i].pid] = out.units[i].name
                /\ state.appPID = out.units[i].pid

(* C10: with a tag column, an ordinary line emitted after a banner (of  *)
(* the same line, or of a line since the last ordinary line emitted)    *)
(* shows its tag.                                                       *)
C10_TagShownAfterBanner ==
    (Processed /\ args.tagWidth > 0 /\ HasUnit(out, "line")) =>
        ((bannerPending \/ HasUnit(out, "start") \/ HasUnit(out, "end")) =>
            out.units[Len(out.units)].tagShown)


-----------------------------------------------------------------------------
(* Properties of process termination and of the pids tracked *)

(* the message forms PID_KILL, PID_LEAVE and PID_DEATH match *)
TerminationForms == {"kill", "leave", "death", "killstart"}

WriteStep == pc = "write" /\ pc' = "loop"

EndBanners(o) == { i \in 1..Len(o.units) : o.units[i].kind = "end" }

(* a main log line of tag ActivityManager with a termination form whose *)
(* pid is a key of pidsMap                                              *)
TrackedTermination ==
    /\ MainLogLine(line)
    /\ line.tag = TagAM
    /\ line.msg.form \in TerminationForms
    /\ line.msg.pid \in DOMAIN state.pidsMap

RemovedWithOneBanner ==
    /\ line.msg.pid \notin DOMAIN state'.pidsMap
    /\ Cardinality(EndBanners(out')) = 1
    /\ Banner(out', "end", line.msg.pid)

(* C11 (amended): a main log line of tag ActivityManager whose message    *)
(* matches a termination form, whose pid is a key of pidsMap and whose    *)
(* package token passes the package filter removes that pid from pidsMap  *)
(* and emits exactly one end banner.                                      *)
C11_Step ==
    ( /\ WriteStep
      /\ TrackedTermination
      /\ isMatchingPackage(line.msg.pkg, state.namedProcesses, state.catchallPackage) ) =>
        RemovedWithOneBanner

C11_OriginalStep == (WriteStep /\ TrackedTermination) => RemovedWithOneBanner

C12_Step ==
    WriteStep =>
        /\ (EndBanners(out') # {} \/ DOMAIN state.pidsMap \ DOMAIN state'.pidsMap # {}) =>
              /\ line.tag = TagAM
              /\ line.msg.form \in TerminationForms
              /\ line.msg.pid \in DOMAIN state.pidsMap \/ Banner(out', "start", line.msg.pid)
              /\ DOMAIN state.pidsMap \ DOMAIN state'.pidsMap \subseteq {line.msg.pid}
              /\ \A i \in EndBanners(out') : out'.units[i].pid = line.msg.pid
        /\ ( /\ line.msg.form \in {"kill", "leave", "death"}
             /\ line.tag # TagAM \/ line.msg.pid \notin DOMAIN state.pidsMap ) =>
              (state'.pidsMap = state.pidsMap /\ ~HasUnit(out', "start") /\ ~HasUnit(out', "end"))

C12_TerminationNoOpOtherwise == [][C12_Step]_vars

(* a death of a tracked pid under another tag was processed: nothing happened *)
C12_Witness ==
    /\ Processed
    /\ line.tag = TagTest
    /\ line.msg.form = "death"
    /\ line.msg.pid \in DOMAIN state.pidsMap
    /\ out.units = <<>>

(* C13: every pid that is a key of pidsMap has a process name that passes *)
(* the package filter, or "all" is active (the filter lists and "all" are *)
(* fixed before the first insertion).                                     *)
C13_TrackedPidsMatch ==
    pc \in {"loop", "read", "write", "done"} =>
        \A pid \in DOMAIN state.pidsMap :
            \/ args.all
            \/ isMatchingPackage(state.pidsMap[pid], state.namedProcesses, state.catchallPackage)

(* one pid from the startup snapshot and one from a start event *)
C13_Witness ==
    /\ Processed
    /\ ~args.all
    /\ Len(device.ps) > 0
    /\ Banner(out, "start", Pid20)
    /\ DOMAIN state.pidsMap = Pids


(* C14: when the loop is about to read its first line, a (pid, process)   *)
(* of the startup process list is in pidsMap exactly when "all" is active *)
(* or the process name passes the package filter that start events use.   *)
C14_SnapshotSameRule ==
    (pc = "loop" /\ out.ret = "none") =>
        \A i \in 1..Len(device.ps) :
            (device.ps[i].pid \in DOMAIN state.pidsMap) <=>
                \/ args.all
                \/ isMatchingPackage(device.ps[i].process,
                                     state.namedProcesses, state.catchallPackage)

(* C15: a line of the log shape whose level letter is not one of V, D, I, *)
(* W, E, F is discarded: nothing is written, and the state and the color  *)
(* table and list are unchanged.                                          *)
C15_Step ==
    (WriteStep /\ line.shape = "log" /\ line.level \notin Range(LOG_LEVELS)) =>
        /\ out'.units = <<>>
        /\ state' = state
        /\ KNOWN_TAGS' = KNOWN_TAGS
        /\ LAST_USED' = LAST_USED

C15_OtherLevelDiscarded == [][C15_Step]_vars


-----------------------------------------------------------------------------
(* getWrappedIndent on its own: the loop of pidcat.py:452-473, one action *)
(* per iteration.  A message is a sequence of characters.                 *)

MaxMessageLen == 3

MaxWidth == 4

MaxHeaderSize == 3

Tab == "\t"

Space == " "

Newline == "\n"

WrapChars == {"a", Tab, Space, Newline}

WrapMessages == UNION { [1..n -> WrapChars] : n \in 0..MaxMessageLen }

(* pidcat.py:455 the width that stands for "unknown" *)
UnknownWidth == 0 - 1

(* the widths and header sizes with room to wrap in: width > headerSize *)
WrapSizes ==
    { <<w, h>> \in ((1..MaxWidth) \cup {UnknownWidth}) \X (0..MaxHeaderSize) :
          w = UnknownWidth \/ w > h }

Min(a, b) == IF a <= b THEN a ELSE b

Spaces(n) == [i \in 1..n |-> Space]

(* pidcat.py:458 message.replace("\t", "    ") *)
RECURSIVE ExpandTabs(_)
ExpandTabs(message) ==
    IF message = <<>> THEN <<>>
    ELSE (IF Head(message) = Tab THEN Spaces(4) ELSE <<Head(message)>>)
         \o ExpandTabs(Tail(message))

(* the separator without its newline *)
Separator_NoNewline(headerSize) == Spaces(headerSize)

(* pidcat.py:468-469 "\n" and headerSize spaces *)
Separator(headerSize) == <<Newline>> \o Spaces(headerSize)

WrapInit ==
    /\ \E m \in WrapMessages, sz \in WrapSizes :
          wrap = [NoWrap EXCEPT !.pc = "call", !.arg = m, !.message = m,
                                !.width = sz[1], !.headerSize = sz[2]]
    /\ strip = NoStrip
    /\ run = NoRun
    /\ writer = NoWriter
    /\ ColorTableInit
    /\ MatchIdle
    /\ StreamIdle

(* pidcat.py:455-456 unknown width: the message is returned as it is *)
WrapUnknownWidth ==
    /\ wrap.pc = "call"
    /\ wrap.width = UnknownWidth
    /\ wrap' = [wrap EXCEPT !.pc = "return", !.messageBuffer = wrap.message]
    /\ UNCHANGED <<strip, run, writer, colorVars, matchVars, streamVars>>

(* pidcat.py:458-461 the tabs are expanded, the buffer is empty, current = 0 *)
WrapEnter ==
    /\ wrap.pc = "call"
    /\ wrap.width # UnknownWidth
    /\ wrap' = [wrap EXCEPT !.pc = "loop", !.message = ExpandTabs(wrap.message),
                            !.messageBuffer = <<>>, !.current = 0]
    /\ UNCHANGED <<strip, run, writer, colorVars, matchVars, streamVars>>

(* the slice s[a:b] of Python: a negative index counts from the end, and *)
(* an index beyond either end is the end                                 *)
PySlice(s, a, b) ==
    SubSeq(s,
           (IF a < 0 THEN (IF a + Len(s) > 0 THEN a + Len(s) ELSE 0) ELSE Min(a, Len(s))) + 1,
           IF b < 0 THEN (IF b + Len(s) > 0 THEN b + Len(s) ELSE 0) ELSE Min(b, Len(s)))

(* the characters of messageBuffer the model keeps: more than any call *)
(* that returns writes, 4 * MaxMessageLen characters of text and fewer *)
(* separators of 1 + MaxHeaderSize characters                          *)
WrapBufferCap == 4 * MaxMessageLen * (2 + MaxHeaderSize)

(* pidcat.py:463-471 one iteration of the while loop.  When the loop does *)
(* not end, messageBuffer and -current grow without bound: the model      *)
(* keeps the first WrapBufferCap characters of the buffer, keeps current  *)
(* at -len(message) once it is below (the slices and the tests are the    *)
(* same for every index below), and keeps the parity of the number of     *)
(* iterations done.                                                       *)
WrapIterate ==
    /\ wrap.pc = "loop"
    /\ wrap.current < Len(wrap.message)
    /\ LET wrapArea == wrap.width - wrap.headerSize
           nextIndex == Min(wrap.current + wrapArea, Len(wrap.message))
           piece == PySlice(wrap.message, wrap.current, nextIndex)
           buffer == IF nextIndex < Len(wrap.message)
                     THEN wrap.messageBuffer \o piece \o Separator(wrap.headerSize)
                     ELSE wrap.messageBuffer \o piece
       IN  wrap' = [wrap EXCEPT
                      !.messageBuffer = SubSeq(buffer, 1, Min(Len(buffer), WrapBufferCap)),
                      !.current = IF nextIndex < 0 - Len(wrap.message)
                                  THEN 0 - Len(wrap.message) ELSE nextIndex,
                      !.odd = ~wrap.odd]
    /\ UNCHANGED <<strip, run, writer, colorVars, matchVars, streamVars>>

(* pidcat.py:463, 473 the loop test fails: return messageBuffer *)
WrapReturn ==
    /\ wrap.pc = "loop"
    /\ ~(wrap.current < Len(wrap.message))
    /\ wrap' = [wrap EXCEPT !.pc = "return"]
    /\ UNCHANGED <<strip, run, writer, colorVars, matchVars, streamVars>>

WrapNext ==
    \/ WrapUnknownWidth
    \/ WrapEnter
    \/ WrapIterate
    \/ WrapReturn

SpecWrap == WrapInit /\ [][WrapNext]_vars

(* a call with any terminal width and header size, also width <= headerSize *)
WrapInitAny ==
    /\ \E m \in WrapMessages, w \in (1..MaxWidth) \cup {UnknownWidth}, h \in 0..MaxHeaderSize :
          wrap = [NoWrap EXCEPT !.pc = "call", !.arg = m, !.message = m,
                                !.width = w, !.headerSize = h]
    /\ strip = NoStrip
    /\ run = NoRun
    /\ writer = NoWriter
    /\ ColorTableInit
    /\ MatchIdle
    /\ StreamIdle

(* the function runs in the one thread of the program and nothing blocks *)
(* it: a step that can be taken is taken                                 *)
SpecWrapFair == WrapInitAny /\ [][WrapNext]_vars /\ WF_vars(WrapNext)

(* the number of separators in a text of n characters wrapped at area *)
Breaks(n, area) == IF n = 0 THEN 0 ELSE (n - 1) \div area

(* where character i of the text is in the wrapped text *)
WrappedIndex(i, area, headerSize) == i + ((i - 1) \div area) * (1 + headerSize)

(* text wrapped at area with headerSize spaces of indent: its length, the *)
(* place of each character of the text, and the separators between        *)
IsWrapped(wrapped, text, area, headerSize) ==
    /\ Len(wrapped) = Len(text) + Breaks(Len(text), area) * (1 + headerSize)
    /\ \A i \in 1..Len(text) : wrapped[WrappedIndex(i, area, headerSize)] = text[i]
    /\ \A b \in 1..Breaks(Len(text), area) :
          LET at == WrappedIndex(b * area, area, headerSize)
          IN  /\ wrapped[at + 1] = Newline
              /\ \A k \in 1..headerSize : wrapped[at + 1 + k] = Space

(* the wrapped text without the characters at the separators' places *)
Unwrapped(wrapped, area, headerSize) ==
    SelectSeq([i \in 1..Len(wrapped) |-> <<i, wrapped[i]>>],
              LAMBDA x : ((x[1] - 1) % (area + 1 + headerSize)) < area)

Chars(pairs) == [i \in 1..Len(pairs) |-> pairs[i][2]]

(* the number of tabs in the first n characters of a text *)
TabsBefore(text, n) == Cardinality({ j \in 1..n : text[j] = Tab })

(* text with each tab replaced by four spaces *)
IsExpanded(expanded, text) ==
    /\ Len(expanded) = Len(text) + 3 * TabsBefore(text, Len(text))
    /\ \A i \in 1..Len(text) :
          LET at == i + 3 * TabsBefore(text, i - 1)
          IN  IF text[i] = Tab
              THEN \A k \in 0..3 : expanded[at + k] = Space
              ELSE expanded[at] = text[i]

(* C16: with a known width greater than headerSize, getWrappedIndent      *)
(* returns the tab-expanded message in segments of width - headerSize     *)
(* characters (the last one may be shorter) joined by a newline and       *)
(* headerSize spaces, and taking the separators out gives the             *)
(* tab-expanded message back; with the unknown width it returns the       *)
(* message unchanged.                                                     *)
C16_WrapRoundTrip ==
    wrap.pc = "return" =>
        IF wrap.width = UnknownWidth
        THEN wrap.messageBuffer = wrap.arg
        ELSE /\ IsExpanded(wrap.message, wrap.arg)
             /\ IsWrapped(wrap.messageBuffer, wrap.message,
                          wrap.width - wrap.headerSize, wrap.headerSize)
             /\ Chars(Unwrapped(wrap.messageBuffer, wrap.width - wrap.headerSize,
                                wrap.headerSize)) = wrap.message

(* a message with a tab was wrapped into more than one segment *)
C16_Witness ==
    /\ wrap.pc = "return"
    /\ wrap.width # UnknownWidth
    /\ wrap.headerSize > 0
    /\ \E i \in 1..Len(wrap.arg) : wrap.arg[i] = Tab
    /\ Len(wrap.message) > wrap.width - wrap.headerSize
    /\ Len(wrap.messageBuffer) > Len(wrap.message)


-----------------------------------------------------------------------------
(* NO_COLOR.sub("", text) on its own, called on a text and on its result *)

MaxStripLen == 6

Esc == "\\033"

StripChars == {Esc, "[", "m", Newline}

StripTexts == UNION { [1..n -> StripChars] : n \in 0..MaxStripLen }

(* pidcat.py:136 NO_COLOR = \033\[.*?m matched at position i of s: the     *)
(* position of the closing m, the first m after "\033[" with no newline   *)
(* before it on the way ("." matches no newline); 0 when there is no match *)
NoColorMatchEnd(s, i) ==
    IF i + 1 <= Len(s) /\ s[i] = Esc /\ s[i + 1] = "["
    THEN LET ends == { j \in (i + 2)..Len(s) :
                         /\ s[j] = "m"
                         /\ \A k \in (i + 2)..(j - 1) : s[k] # "m" /\ s[k] # Newline }
         IN  IF ends = {} THEN 0 ELSE CHOOSE j \in ends : TRUE
    ELSE 0

(* pidcat.py:639 re.sub: the matches are taken from the left, one after *)
(* the end of the other, and removed; the text from position i on       *)
RECURSIVE NoColorSubFrom(_, _)
NoColorSubFrom(s, i) ==
    IF i > Len(s) THEN <<>>
    ELSE IF NoColorMatchEnd(s, i) = 0 THEN <<s[i]>> \o NoColorSubFrom(s, i + 1)
    ELSE NoColorSubFrom(s, NoColorMatchEnd(s, i) + 1)

(* pidcat.py:639 lineNoColor = NO_COLOR.sub("", outputLine) *)
NoColorSub(s) == NoColorSubFrom(s, 1)

StripInit ==
    /\ \E t \in StripTexts : strip = [NoStrip EXCEPT !.pc = "call", !.text = t]
    /\ wrap = NoWrap
    /\ run = NoRun
    /\ writer = NoWriter
    /\ ColorTableInit
    /\ MatchIdle
    /\ StreamIdle

StripOnce ==
    /\ strip.pc = "call"
    /\ strip' = [strip EXCEPT !.pc = "once", !.once = NoColorSub(strip.text)]
    /\ UNCHANGED <<wrap, run, writer, colorVars, matchVars, streamVars>>

StripTwice ==
    /\ strip.pc = "once"
    /\ strip' = [strip EXCEPT !.pc = "twice", !.twice = NoColorSub(strip.once)]
    /\ UNCHANGED <<wrap, run, writer, colorVars, matchVars, streamVars>>

StripNext ==
    \/ StripOnce
    \/ StripTwice

SpecStrip == StripInit /\ [][StripNext]_vars

HasEscapeSequence(s) == \E i \in 1..Len(s) : NoColorMatchEnd(s, i) # 0

(* C17: stripping a stripped text changes nothing, and a stripped text *)
(* holds no escape sequence.                                           *)
C17_StripIdempotent ==
    /\ strip.pc = "twice" => strip.twice = strip.once
    /\ strip.pc \in {"once", "twice"} => ~HasEscapeSequence(strip.once)


-----------------------------------------------------------------------------
(* The stream loop seen from its ends (pidcat.py:898-930): the upstream   *)
(* process, the reads, the two destinations of writeOutput, stderr, and   *)
(* the except and finally clauses.  What writeLogLine computes is left    *)
(* open here: a line yields any short sequence of units.  A               *)
(* KeyboardInterrupt is raised between any two steps of the try body.     *)

MaxLines == 2

MaxUnitsPerLine == 2

PlainUnit == <<"a">>

ColoredUnit == <<Esc, "[", "m", "a">>

RunUnits == {PlainUnit, ColoredUnit}

UnitSeqs == UNION { [1..n -> RunUnits] : n \in 0..MaxUnitsPerLine }

StoppedByUser == <<"stopped by user!">>

Traceback == <<"Traceback">>

(* pidcat.py:898 the stream is the stdout pipe of "adb logcat" when stdin *)
(* is a terminal, or else stdin behind a MockTTY; the upstream process is *)
(* the one that writes to that pipe                                       *)
RunInit ==
    /\ \E c \in BOOLEAN, f \in {"none", "open"}, m \in BOOLEAN :
          run = [NoRun EXCEPT !.pc = "loop", !.showColors = c, !.outputFile = f,
                              !.mock = m]
    /\ wrap = NoWrap
    /\ strip = NoStrip
    /\ writer = NoWriter
    /\ ColorTableInit
    /\ MatchIdle
    /\ StreamIdle

RunUnchanged == UNCHANGED <<wrap, strip, writer, colorVars, matchVars, streamVars>>

(* the upstream process writes its next line into the pipe *)
RunUpstreamWrites ==
    /\ run.pc \in {"loop", "read", "write", "fileWrite"}
    /\ run.upstream = "alive"
    /\ run.written < MaxLines
    /\ run' = [run EXCEPT !.written = run.written + 1,
                          !.pipe = Append(run.pipe, run.written + 1)]
    /\ RunUnchanged

(* the upstream process exits on its own (adb fails, the device goes away, *)
(* the writer of stdin is done); what it wrote stays in the pipe           *)
RunUpstreamExits ==
    /\ run.pc \in {"loop", "read", "write", "fileWrite"}
    /\ run.upstream = "alive"
    /\ run' = [run EXCEPT !.upstream = "exited"]
    /\ RunUnchanged

(* pidcat.py:910 adbPID.poll() is None: the body is entered; the poll of *)
(* a MockTTY (MockTTY.py:41-47) returns None always                      *)
RunLoopTest ==
    /\ run.pc = "loop"
    /\ (run.mock \/ run.upstream = "alive")
    /\ run' = [run EXCEPT !.pc = "read"]
    /\ RunUnchanged

(* pidcat.py:910 adbPID.poll() is not None: the loop ends, the try block *)
(* is left with no exception                                             *)
RunLoopEnds ==
    /\ run.pc = "loop"
    /\ ~run.mock
    /\ run.upstream = "exited"
    /\ run' = [run EXCEPT !.pc = "finally", !.cause = "exited"]
    /\ RunUnchanged

(* pidcat.py:911-924 readline returns the first line of the pipe (it *)
(* waits while the pipe is empty and the upstream process is alive);  *)
(* writeLogLine has a sequence of units to write for it               *)
RunReadLine ==
    /\ run.pc = "read"
    /\ run.pipe # <<>>
    /\ \E us \in UnitSeqs : run' = [run EXCEPT !.pc = "write", !.pending = us,
                                               !.lines = run.lines + 1,
                                               !.read = Append(run.read, Head(run.pipe)),
                                               !.pipe = Tail(run.pipe)]
    /\ RunUnchanged

(* pidcat.py:911-913 readline returns nothing, the pipe is empty and its *)
(* writer is gone: break                                                 *)
RunReadEnd ==
    /\ run.pc = "read"
    /\ run.pipe = <<>>
    /\ run.upstream = "exited"
    /\ run' = [run EXCEPT !.pc = "finally", !.cause = "eof"]
    /\ RunUnchanged

(* pidcat.py:911 readline raises (OSError, ValueError): no except clause *)
(* takes it, the finally clause runs and the exception leaves main       *)
RunReadFails ==
    /\ run.pc = "read"
    /\ run' = [run EXCEPT !.pc = "finally", !.cause = "readError"]
    /\ RunUnchanged

(* pidcat.py:639-641 writeOutput: the unit is printed, colored or stripped *)
RunPrint ==
    /\ run.pc = "write"
    /\ run.pending # <<>>
    /\ run' = [run EXCEPT
                 !.console = Append(run.console,
                                    IF run.showColors THEN Head(run.pending)
                                    ELSE NoColorSub(Head(run.pending))),
                 !.pc = IF run.outputFile = "open" THEN "fileWrite" ELSE "write",
                 !.pending = IF run.outputFile = "open" THEN run.pending
                             ELSE Tail(run.pending)]
    /\ RunUnchanged

(* pidcat.py:643-644 writeOutput: the stripped unit is written to the file *)
RunFileWrite ==
    /\ run.pc = "fileWrite"
    /\ run' = [run EXCEPT !.file = Append(run.file, NoColorSub(Head(run.pending))),
                          !.pc = "write",
                          !.pending = Tail(run.pending)]
    /\ RunUnchanged

(* pidcat.py:924 writeLogLine returns: back to the loop test *)
RunLineDone ==
    /\ run.pc = "write"
    /\ run.pending = <<>>
    /\ run' = [run EXCEPT !.pc = "loop"]
    /\ RunUnchanged

(* a KeyboardInterrupt is raised in the try body *)
RunInterrupt ==
    /\ run.pc \in {"loop", "read", "write", "fileWrite"}
    /\ run' = [run EXCEPT !.pc = "except", !.cause = "interrupt"]
    /\ RunUnchanged

(* pidcat.py:925-926 except KeyboardInterrupt: the message on stderr *)
RunExcept ==
    /\ run.pc = "except"
    /\ run' = [run EXCEPT !.pc = "finally", !.stderr = Append(run.stderr, StoppedByUser)]
    /\ RunUnchanged

(* pidcat.py:927-930 finally: the output file is closed; an exception  *)
(* that left main is printed by the interpreter as a traceback         *)
RunFinally ==
    /\ run.pc = "finally"
    /\ run' = [run EXCEPT
                 !.pc = "exit",
                 !.outputFile = IF run.outputFile = "open" THEN "closed" ELSE run.outputFile,
                 !.stderr = IF run.cause = "readError" THEN Append(run.stderr, Traceback)
                            ELSE run.stderr]
    /\ RunUnchanged

RunNext ==
    \/ RunUpstreamWrites
    \/ RunUpstreamExits
    \/ RunLoopTest
    \/ RunLoopEnds
    \/ RunReadLine
    \/ RunReadEnd
    \/ RunReadFails
    \/ RunPrint
    \/ RunFileWrite
    \/ RunLineDone
    \/ RunInterrupt
    \/ RunExcept
    \/ RunFinally

SpecRun == RunInit /\ [][RunNext]_vars

(* C18: at the end of the run, however it ended, the units in the output *)
(* file are the units on the console with the colors stripped.           *)
C18_AllDestinations ==
    (run.pc = "exit" /\ run.outputFile = "closed") =>
        run.file = [i \in 1..Len(run.console) |-> NoColorSub(run.console[i])]

(* C20: a run that ended because the upstream process exited or a read *)
(* failed has exactly one report on stderr.                            *)
C20_UpstreamFailureReported ==
    (run.pc = "exit" /\ run.cause \in {"exited", "readError"}) => Len(run.stderr) = 1


-----------------------------------------------------------------------------
(* The writers (controller/ConsoleWriter.py, controller/FileWriter.py):   *)
(* a ConsoleWriter over an io.TextIOWrapper of sys.stdout.buffer and a    *)
(* FileWriter over an open text file, under any sequence of write, flush  *)
(* and close calls.  A stream counts the texts written to it, those still *)
(* in its buffer and those delivered.  A call on a detached wrapper or a  *)
(* closed file raises ValueError, except close() of a closed file.        *)

MaxWrites == 2

Called(target, op, raised) == [target |-> target, op |-> op, raised |-> raised]

WriterInit ==
    /\ writer = [NoWriter EXCEPT !.pc = "ready"]
    /\ wrap = NoWrap
    /\ strip = NoStrip
    /\ run = NoRun
    /\ ColorTableInit
    /\ MatchIdle
    /\ StreamIdle

WriterUnchanged == UNCHANGED <<wrap, strip, run, colorVars, matchVars, streamVars>>

(* stream.write(text) on a usable stream *)
Written(st) == [st EXCEPT !.written = st.written + 1, !.buffered = st.buffered + 1]

(* stream.flush() on a usable stream *)
Flushed(st) == [st EXCEPT !.buffered = 0, !.delivered = st.delivered + st.buffered]

(* ConsoleWriter.py:19-21 write: self.stdout.write(text) *)
ConsoleWrite ==
    /\ writer.pc = "ready"
    /\ writer.console.written < MaxWrites
    /\ writer' = IF writer.console.stream = "detached"
                 THEN [writer EXCEPT !.last = Called("console", "write", "ValueError")]
                 ELSE [writer EXCEPT !.console = Written(writer.console),
                                     !.last = Called("console", "write", "none")]
    /\ WriterUnchanged

(* ConsoleWriter.py:23-25 flush: self.stdout.flush() *)
ConsoleFlush ==
    /\ writer.pc = "ready"
    /\ writer' = IF writer.console.stream = "detached"
                 THEN [writer EXCEPT !.last = Called("console", "flush", "ValueError")]
                 ELSE [writer EXCEPT !.console = Flushed(writer.console),
                                     !.last = Called("console", "flush", "none")]
    /\ WriterUnchanged

(* ConsoleWriter.py:27-30 close: self.stdout.flush() raises on a detached *)
(* wrapper, before self.stdout.detach() is reached                        *)
ConsoleClosed(st) ==
    IF st.stream = "detached" THEN [stream |-> st, raised |-> "ValueError"]
    ELSE [stream |-> [Flushed(st) EXCEPT !.stream = "detached"], raised |-> "none"]

ConsoleClose ==
    /\ writer.pc = "ready"
    /\ writer' = [writer EXCEPT
                    !.console = ConsoleClosed(writer.console).stream,
                    !.last = Called("console", "close", ConsoleClosed(writer.console).raised)]
    /\ WriterUnchanged

(* FileWriter.py:15-17 write: self.outputFile.write(text) *)
FileWrite ==
    /\ writer.pc = "ready"
    /\ writer.file.written < MaxWrites
    /\ writer' = IF writer.file.stream = "closed"
                 THEN [writer EXCEPT !.last = Called("file", "write", "ValueError")]
                 ELSE [writer EXCEPT !.file = Written(writer.file),
                                     !.last = Called("file", "write", "none")]
    /\ WriterUnchanged

(* FileWriter.py:19-21 flush: self.outputFile.flush() *)
FileFlush ==
    /\ writer.pc = "ready"
    /\ writer' = IF writer.file.stream = "closed"
                 THEN [writer EXCEPT !.last = Called("file", "flush", "ValueError")]
                 ELSE [writer EXCEPT !.file = Flushed(writer.file),
                                     !.last = Called("file", "flush", "none")]
    /\ WriterUnchanged

(* FileWriter.py:23-25 close: self.outputFile.close() flushes the buffer *)
(* and closes; on a closed file it does nothing                          *)
FileClosed(st) ==
    IF st.stream = "closed" THEN st ELSE [Flushed(st) EXCEPT !.stream = "closed"]

FileClose ==
    /\ writer.pc = "ready"
    /\ writer' = [writer EXCEPT !.file = FileClosed(writer.file),
                                !.last = Called("file", "close", "none")]
    /\ WriterUnchanged

WriterNext ==
    \/ ConsoleWrite
    \/ ConsoleFlush
    \/ ConsoleClose
    \/ FileWrite
    \/ FileFlush
    \/ FileClose

SpecWriter == WriterInit /\ [][WriterNext]_vars

(* C19: after any close() of the console writer, no error was raised and *)
(* the console is closed; after a close() of the file writer, all that   *)
(* was written has been delivered and the file is closed.                *)
C19_CloseSafe ==
    /\ (writer.last.target = "console" /\ writer.last.op = "close") =>
          (writer.last.raised = "none" /\ writer.console.stream = "detached")
    /\ (writer.last.target = "file" /\ writer.last.op = "close") =>
          /\ writer.last.raised = "none"
          /\ writer.file.stream = "closed"
          /\ writer.file.buffered = 0
          /\ writer.file.delivered = writer.file.written

-----------------------------------------------------------------------------
(* Properties of the command line: the deny-list and --current *)

(* C21: with both --ignore-system-tags and --ignore-tag X on the command   *)
(* line, no main log line whose tag matches the term X, and none whose tag *)
(* is a system tag, is emitted.                                            *)
C21_BothIgnoreOptions ==
    (/\ Processed
     /\ argv.ignoreSystemTags /\ argv.ignoreTag # {}
     /\ MainLogLine(line)
     /\ (isMatchingTag(line.tag, argv.ignoreTag) \/ line.tag \in SYSTEM_TAGS))
    => ~HasUnit(out, "line")

(* C22: with --current, a visible running app and "all" not requested on *)
(* the command line, no main log line is emitted whose owner is not a    *)
(* tracked pid, with or without a package argument.                      *)
C22_CurrentAppFilters ==
    (/\ Processed
     /\ argv.currentApp /\ device.visible # {} /\ ~argv.all
     /\ MainLogLine(line)
     /\ line.owner \notin DOMAIN state.pidsMap)
    => ~HasUnit(out, "line")

-----------------------------------------------------------------------------
(* Properties of the tag column *)

(* C23: with a tag width above 0, an ordinary line that is emitted shows  *)
(* its tag iff the tag differs from the last tag rendered (none after a   *)
(* banner of the same line) or tags are always shown, its tag column      *)
(* takes the tag width whether the tag or blank padding is rendered, and  *)
(* afterwards the last tag rendered is the line's tag; a line that is not *)
(* emitted leaves the last tag rendered as it was.                        *)
C23_Step ==
    (WriteStep /\ args.tagWidth > 0) =>
        IF HasUnit(out', "line")
        THEN /\ out'.units[Len(out'.units)].tagShown <=>
                   \/ line.tag # (IF HasUnit(out', "start") \/ HasUnit(out', "end")
                                  THEN None ELSE state.lastTag)
                   \/ args.alwaysShowTags
             /\ out'.units[Len(out'.units)].tagCols = args.tagWidth
             /\ state'.lastTag = line.tag
        ELSE state'.lastTag = state.lastTag

C23_TagRepetition == [][C23_Step]_vars

-----------------------------------------------------------------------------
(* Permanence of the color table *)

(* C24: a getTagColor call changes and removes no entry the table holds, *)
(* and a lookup of a name that has an entry returns the color of that    *)
(* entry, whichever lookups came in between; names share colors instead. *)
C24_Step ==
    /\ \A n \in DOMAIN KNOWN_TAGS :
          n \in DOMAIN KNOWN_TAGS' /\ KNOWN_TAGS'[n] = KNOWN_TAGS[n]
    /\ call'.arg \in DOMAIN KNOWN_TAGS => call'.ret = KNOWN_TAGS[call'.arg]

-----------------------------------------------------------------------------
(* Termination of getWrappedIndent *)

(* C25: every call of getWrappedIndent returns, whatever the message, the *)
(* terminal width and the header size, also with width <= headerSize.     *)
C25_WrapTerminates == <>(wrap.pc = "return")

-----------------------------------------------------------------------------
(* The end of the stream *)

(* C26: when the loop has ended because the upstream process exited or   *)
(* the stream was at its end, every line the upstream process wrote has  *)
(* been read, in the order written.                                      *)
C26_NoLineLost ==
    (run.pc \in {"finally", "exit"} /\ run.cause \in {"exited", "eof"}) =>
        run.read = [i \in 1..run.written |-> i]

=============================================================================
